---- MODULE Spec2Model ----
(***************************************************************************)
(* Model of the nutrition analysis service (src/services/ai-service.ts)    *)
(* and of the provider selection it uses (src/config/env.ts).              *)
(*                                                                         *)
(* Text is modelled as a sequence of tokens (numbers, words, punctuation), *)
(* a number as a count of tenths (452.6 is 4526), a JavaScript value as a   *)
(* record tagged with its type.                                            *)
(***************************************************************************)
EXTENDS Integers, Sequences, FiniteSets, TLC

(***************************************************************************)
(* Bounds                                                                  *)
(***************************************************************************)
MaxTextLen == 1      \* longest mealText, in characters
MaxPhrases == 2      \* longest free-text assistant content, in phrases
MaxCalls == 3        \* calls made to one debounced analyzer
DelayTicks == 2      \* delayMs, in clock ticks

(***************************************************************************)
(* JavaScript values                                                       *)
(***************************************************************************)
JV(ty, n, s, items, fields) ==
    [ty |-> ty, n |-> n, s |-> s, items |-> items, fields |-> fields]

Undefined == JV("undefined", 0, <<>>, <<>>, <<>>)
Null == JV("null", 0, <<>>, <<>>, <<>>)
Bool(b) == JV("boolean", IF b THEN 1 ELSE 0, <<>>, <<>>, <<>>)
Num(n) == JV("number", n, <<>>, <<>>, <<>>)
Str(s) == JV("string", 0, s, <<>>, <<>>)
Arr(items) == JV("array", 0, <<>>, items, <<>>)
Obj(fields) == JV("object", 0, <<>>, <<>>, fields)

\* F applied to the value of v, v being evaluated once
Bind(v, F(_)) == CHOOSE y \in {F(x) : x \in {v}} : TRUE

\* v in a boolean context: undefined, null, false, 0 and "" are falsy
Truthy(v) ==
    CASE v.ty = "undefined" -> FALSE
      [] v.ty = "null" -> FALSE
      [] v.ty = "boolean" -> v.n = 1
      [] v.ty = "number" -> v.n # 0
      [] v.ty = "string" -> v.s # <<>>
      [] OTHER -> TRUE

\* a || b
OrElse(a, b) == IF Truthy(a) THEN a ELSE b

\* obj.key ; a TypeError on undefined and null is the caller's business
GetField(v, key) ==
    IF v.ty = "object" /\ key \in DOMAIN v.fields THEN v.fields[key] ELSE Undefined

\* Math.round of a number of tenths: the nearest integer, a half rounds up
MathRound(n) == (n + 5) \div 10

(***************************************************************************)
(* Text                                                                    *)
(***************************************************************************)
Tok(k, n, w) == [k |-> k, n |-> n, w |-> w]
NumTok(n) == Tok("num", n, "")
Word(w) == Tok("word", 0, w)
Punct(w) == Tok("punct", 0, w)
Quote == Punct("\"")

Abs(n) == IF n < 0 THEN -n ELSE n

\* the run of digits that ends a number literal: a literal is written with
\* one fraction digit when it has tenths (452.6) and with none otherwise
\* (450), and \d+ does not match the sign or the point
TrailingDigits(tok) ==
    IF Abs(tok.n) % 10 # 0 THEN Abs(tok.n) % 10 ELSE Abs(tok.n) \div 10

(***************************************************************************)
(* JSON.parse over a token sequence                                        *)
(***************************************************************************)
Fail == [ok |-> FALSE, val |-> Undefined, next |-> 0]
Done(val, next) == [ok |-> TRUE, val |-> val, next |-> next]

\* the position of the first quote at or after i, 0 when there is none
FindQuote(t, i) ==
    LET js == {j \in i..Len(t) : t[j] = Quote}
    IN IF js = {} THEN 0 ELSE CHOOSE j \in js : \A k \in js : j <= k

IsAt(t, i, tok) == i <= Len(t) /\ t[i] = tok

SetField(fields, key, val) ==
    [k \in DOMAIN fields \cup {key} |-> IF k = key THEN val ELSE fields[k]]

RECURSIVE ParseValue(_, _), ParseElements(_, _, _), ParseMembers(_, _, _)

ParseValue(t, i) ==
    IF i > Len(t) THEN Fail
    ELSE CASE t[i].k = "num" -> Done(Num(t[i].n), i + 1)
           [] t[i] = Quote ->
                Bind(FindQuote(t, i + 1), LAMBDA j :
                    IF j = 0 THEN Fail ELSE Done(Str(SubSeq(t, i + 1, j - 1)), j + 1))
           [] t[i] = Word("null") -> Done(Null, i + 1)
           [] t[i] = Word("true") -> Done(Bool(TRUE), i + 1)
           [] t[i] = Word("false") -> Done(Bool(FALSE), i + 1)
           [] t[i] = Punct("[") ->
                IF IsAt(t, i + 1, Punct("]")) THEN Done(Arr(<<>>), i + 2)
                ELSE ParseElements(t, i + 1, <<>>)
           [] t[i] = Punct("{") ->
                IF IsAt(t, i + 1, Punct("}")) THEN Done(Obj(<<>>), i + 2)
                ELSE ParseMembers(t, i + 1, <<>>)
           [] OTHER -> Fail

ParseElements(t, i, acc) ==
    Bind(ParseValue(t, i), LAMBDA r :
        IF ~r.ok THEN Fail
        ELSE Bind(Append(acc, r.val), LAMBDA items :
            IF IsAt(t, r.next, Punct(",")) THEN ParseElements(t, r.next + 1, items)
            ELSE IF IsAt(t, r.next, Punct("]")) THEN Done(Arr(items), r.next + 1)
            ELSE Fail))

ParseMembers(t, i, acc) ==
    IF ~IsAt(t, i, Quote) THEN Fail
    ELSE Bind(FindQuote(t, i + 1), LAMBDA j :
        IF j = 0 \/ ~IsAt(t, j + 1, Punct(":")) THEN Fail
        ELSE Bind(ParseValue(t, j + 2), LAMBDA r :
            IF ~r.ok THEN Fail
            ELSE Bind(SetField(acc, SubSeq(t, i + 1, j - 1), r.val), LAMBDA fields :
                IF IsAt(t, r.next, Punct(",")) THEN ParseMembers(t, r.next + 1, fields)
                ELSE IF IsAt(t, r.next, Punct("}")) THEN Done(Obj(fields), r.next + 1)
                ELSE Fail)))

\* JSON.parse(content): ok = FALSE is a SyntaxError
JSONParse(t) ==
    Bind(ParseValue(t, 1), LAMBDA r :
        IF r.ok /\ r.next = Len(t) + 1 THEN [ok |-> TRUE, val |-> r.val]
        ELSE [ok |-> FALSE, val |-> Undefined])

(***************************************************************************)
(* The patterns of extractNutritionFromText, matched over tokens. \s* is   *)
(* the boundary between two tokens, a word is matched by its beginning and *)
(* without regard to case.                                                 *)
(***************************************************************************)
CalorieWords == {"cal", "kcal", "calories", "Calories", "kcals"}
GramWords == {"g", "gram", "grams", "G"}
OfWords == {"of", "Of"}
ProteinWords == {"protein", "proteins", "Protein"}
CarbWords == {"carb", "carbs", "carbohydrates", "Carbs"}
FatWords == {"fat", "fats", "Fat"}

IsWordIn(t, i, words) == i <= Len(t) /\ t[i].k = "word" /\ t[i].w \in words

\* the first position of a set of positions, 0 for "no match"
FirstOf(ps) == IF ps = {} THEN 0 ELSE CHOOSE p \in ps : \A q \in ps : p <= q

\* /(\d+)\s*(?:cal|kcal|calories)/i : position of the number, 0 when no match
CalorieMatch(t) ==
    FirstOf({i \in 1..Len(t) : t[i].k = "num" /\ IsWordIn(t, i + 1, CalorieWords)})

\* /(\d+)\s*(?:g|grams?)?\s*(?:of\s+)?<name>/i
MacroMatchAt(t, i, names) ==
    LET j1 == IF IsWordIn(t, i + 1, GramWords) THEN i + 2 ELSE i + 1
        j2 == IF IsWordIn(t, j1, OfWords) THEN j1 + 1 ELSE j1
    IN t[i].k = "num" /\ IsWordIn(t, j2, names)

MacroMatch(t, names) == FirstOf({i \in 1..Len(t) : MacroMatchAt(t, i, names)})

\* parseInt(match[1], 10)
ParseIntGroup(t, i) == TrailingDigits(t[i])

(***************************************************************************)
(* Errors and results                                                      *)
(***************************************************************************)
createAPIError(message, code, retryable) ==
    [message |-> message, code |-> code, retryable |-> retryable]

NoError == createAPIError("", "", FALSE)

\* a thrown value: an AxiosError, an Error instance, or the plain object
\* that createAPIError builds
Thrown(kind, code, hasResponse, status, message, err) ==
    [kind |-> kind, code |-> code, hasResponse |-> hasResponse,
     status |-> status, message |-> message, err |-> err]
AxiosError(code, hasResponse, status) ==
    Thrown("AxiosError", code, hasResponse, status, "Request failed", NoError)
ErrorInstance(message) == Thrown("Error", "", FALSE, 0, message, NoError)
PlainObject(err) == Thrown("object", "", FALSE, 0, "", err)
Nothing == Thrown("", "", FALSE, 0, "", NoError)

AIAnalysisResult(calories, protein, carbs, fat, explanation, confidence, sources) ==
    [calories |-> calories, protein |-> protein, carbs |-> carbs, fat |-> fat,
     explanation |-> explanation, confidence |-> confidence, sources |-> sources]

NoResult == AIAnalysisResult(0, 0, 0, 0, Undefined, Undefined, Undefined)

\* how a call ends: it returns a value or it throws one
Return(result) == [ok |-> TRUE, result |-> result, thrown |-> Nothing]
Throw(thrown) == [ok |-> FALSE, result |-> NoResult, thrown |-> thrown]

DefaultProtein == 20
DefaultCarbs == 30
DefaultFat == 10
FallbackConfidence == 6      \* 0.6, in tenths
DefaultConfidence == 8       \* 0.8, in tenths
ExplanationChars == 500

\* text.substring(0, 500), a token being one character or more
Substring(t, n) == SubSeq(t, 1, IF Len(t) < n THEN Len(t) ELSE n)

extractNutritionFromText(text) ==
    LET calorieMatch == CalorieMatch(text)
        proteinMatch == MacroMatch(text, ProteinWords)
        carbsMatch == MacroMatch(text, CarbWords)
        fatMatch == MacroMatch(text, FatWords)
    IN IF calorieMatch = 0
       THEN Throw(PlainObject(createAPIError(
                "Could not extract calorie information from AI response",
                "PARSE_ERROR", FALSE)))
       ELSE Return(AIAnalysisResult(
                ParseIntGroup(text, calorieMatch),
                IF proteinMatch # 0 THEN ParseIntGroup(text, proteinMatch) ELSE DefaultProtein,
                IF carbsMatch # 0 THEN ParseIntGroup(text, carbsMatch) ELSE DefaultCarbs,
                IF fatMatch # 0 THEN ParseIntGroup(text, fatMatch) ELSE DefaultFat,
                Str(Substring(text, ExplanationChars)),
                Num(FallbackConfidence),
                Arr(<<>>)))

IsNumber(v) == v.ty = "number"

\* the validity test looking at calories alone
ValidNutritionDataCaloriesOnly(parsed) ==
    /\ parsed.ty # "null"
    /\ IsNumber(GetField(parsed, <<Word("calories")>>))

\* the four required fields of the decoded value are numbers; reading a
\* field of null is a TypeError, which the same catch block handles
ValidNutritionData(parsed) ==
    /\ parsed.ty # "null"
    /\ IsNumber(GetField(parsed, <<Word("calories")>>))
    /\ IsNumber(GetField(parsed, <<Word("protein")>>))
    /\ IsNumber(GetField(parsed, <<Word("carbs")>>))
    /\ IsNumber(GetField(parsed, <<Word("fat")>>))

parseAIResponse(content) ==
    Bind(JSONParse(content), LAMBDA decoded :
        IF decoded.ok /\ ValidNutritionData(decoded.val)
        THEN Bind(decoded.val, LAMBDA parsed :
            Return(AIAnalysisResult(
                MathRound(GetField(parsed, <<Word("calories")>>).n),
                MathRound(GetField(parsed, <<Word("protein")>>).n),
                MathRound(GetField(parsed, <<Word("carbs")>>).n),
                MathRound(GetField(parsed, <<Word("fat")>>).n),
                OrElse(GetField(parsed, <<Word("explanation")>>),
                       Str(<<Word("No"), Word("explanation"), Word("provided")>>)),
                OrElse(GetField(parsed, <<Word("confidence")>>), Num(DefaultConfidence)),
                OrElse(GetField(parsed, <<Word("sources")>>), Arr(<<>>)))))
        ELSE extractNutritionFromText(content))

(***************************************************************************)
(* What the HTTP call of a provider ends with                              *)
(***************************************************************************)
\* kind "response": a 2xx response whose body has no choices list
\* (choices = "missing"), an empty one ("empty"), or a first choice with the
\* given message content; kind "reject": axios.post throws
HttpOutcome(kind, choices, content, citations, thrown) ==
    [kind |-> kind, choices |-> choices, content |-> content,
     citations |-> citations, thrown |-> thrown]
Response(choices, content, citations) ==
    HttpOutcome("response", choices, content, citations, Nothing)
Reject(thrown) == HttpOutcome("reject", "missing", Undefined, Undefined, thrown)

\* response.data.choices[0]?.message?.content, then the empty check
ContentOf(http) == IF http.choices = "one" THEN http.content ELSE Undefined

EmptyResponse ==
    Throw(PlainObject(createAPIError("No response from AI", "EMPTY_RESPONSE", TRUE)))

analyzeWithOpenRouter(http) ==
    IF http.kind = "reject" THEN Throw(http.thrown)
    ELSE IF http.choices = "missing"
         THEN Throw(ErrorInstance("Cannot read properties of undefined"))
    ELSE IF ~Truthy(ContentOf(http)) THEN EmptyResponse
    ELSE parseAIResponse(ContentOf(http).s)

\* v.length of an array or a string; -1 stands for undefined
LengthOf(v) ==
    CASE v.ty = "array" -> Len(v.items)
      [] v.ty = "string" -> Len(v.s)
      [] OTHER -> -1

\* the Perplexity call writing the citations over whatever sources it parsed
analyzeWithPerplexityOverwrite(http) ==
    IF http.kind = "reject" THEN Throw(http.thrown)
    ELSE IF http.choices = "missing"
         THEN Throw(ErrorInstance("Cannot read properties of undefined"))
    ELSE IF ~Truthy(ContentOf(http)) THEN EmptyResponse
    ELSE Bind(parseAIResponse(ContentOf(http).s), LAMBDA parsed :
             LET citations == OrElse(http.citations, Arr(<<>>))
             IN IF parsed.ok /\ LengthOf(citations) > 0
                THEN Return([parsed.result EXCEPT !.sources = citations])
                ELSE parsed)

analyzeWithPerplexity(http) ==
    IF http.kind = "reject" THEN Throw(http.thrown)
    ELSE IF http.choices = "missing"
         THEN Throw(ErrorInstance("Cannot read properties of undefined"))
    ELSE IF ~Truthy(ContentOf(http)) THEN EmptyResponse
    ELSE Bind(parseAIResponse(ContentOf(http).s), LAMBDA parsed :
             LET citations == OrElse(http.citations, Arr(<<>>))
                 result == parsed.result
             IN IF parsed.ok /\ LengthOf(citations) > 0
                    /\ (~Truthy(result.sources) \/ LengthOf(result.sources) = 0)
                THEN Return([result EXCEPT !.sources = citations])
                ELSE parsed)

(***************************************************************************)
(* handleAPIError                                                          *)
(***************************************************************************)
\* the classifier with the server-error bound off by one
handleAPIErrorAbove500(error) ==
    IF error.kind = "AxiosError"
    THEN IF error.code = "ECONNABORTED" \/ error.code = "ETIMEDOUT"
         THEN createAPIError("Request timed out. Please check your connection.",
                             "TIMEOUT", TRUE)
         ELSE IF ~error.hasResponse
         THEN createAPIError("Network error. Please check your internet connection.",
                             "NETWORK_ERROR", TRUE)
         ELSE IF error.status = 401
         THEN createAPIError("Invalid API key. Please check your configuration.",
                             "AUTH_ERROR", FALSE)
         ELSE IF error.status = 429
         THEN createAPIError("Rate limit exceeded. Please wait a moment.",
                             "RATE_LIMIT", TRUE)
         ELSE IF error.status > 500
         THEN createAPIError("AI service is temporarily unavailable.",
                             "SERVER_ERROR", TRUE)
         ELSE createAPIError("API error: Request failed", "API_ERROR", TRUE)
    ELSE IF error.kind = "Error"
    THEN createAPIError(error.message, "UNKNOWN_ERROR", FALSE)
    ELSE createAPIError("An unexpected error occurred", "UNKNOWN_ERROR", FALSE)

handleAPIError(error) ==
    IF error.kind = "AxiosError"
    THEN IF error.code = "ECONNABORTED" \/ error.code = "ETIMEDOUT"
         THEN createAPIError("Request timed out. Please check your connection.",
                             "TIMEOUT", TRUE)
         ELSE IF ~error.hasResponse
         THEN createAPIError("Network error. Please check your internet connection.",
                             "NETWORK_ERROR", TRUE)
         ELSE IF error.status = 401
         THEN createAPIError("Invalid API key. Please check your configuration.",
                             "AUTH_ERROR", FALSE)
         ELSE IF error.status = 429
         THEN createAPIError("Rate limit exceeded. Please wait a moment.",
                             "RATE_LIMIT", TRUE)
         ELSE IF error.status >= 500
         THEN createAPIError("AI service is temporarily unavailable.",
                             "SERVER_ERROR", TRUE)
         ELSE createAPIError("API error: Request failed", "API_ERROR", TRUE)
    ELSE IF error.kind = "Error"
    THEN createAPIError(error.message, "UNKNOWN_ERROR", FALSE)
    ELSE createAPIError("An unexpected error occurred", "UNKNOWN_ERROR", FALSE)

(***************************************************************************)
(* analyzeNutrition                                                        *)
(***************************************************************************)
IsSpace(c) == c = " "

RECURSIVE TrimStart(_), TrimEnd(_)
TrimStart(text) ==
    IF text # <<>> /\ IsSpace(Head(text)) THEN TrimStart(Tail(text)) ELSE text
TrimEnd(text) ==
    IF text # <<>> /\ IsSpace(text[Len(text)])
    THEN TrimEnd(SubSeq(text, 1, Len(text) - 1)) ELSE text
Trim(text) == TrimEnd(TrimStart(text))

\* the guard without the trim
IsEmptyInputUntrimmed(mealText) == mealText = <<>>

\* the guard of analyzeNutrition
IsEmptyInput(mealText) == mealText = <<>> \/ Len(Trim(mealText)) = 0

EmptyInput == createAPIError("Meal text cannot be empty", "EMPTY_INPUT", FALSE)

getCurrentProviderConfig(aiProvider) ==
    IF aiProvider = "openrouter" THEN "openrouter" ELSE "perplexity"

\* the try block of analyzeNutrition, once the HTTP call has ended
AnalyzeWithProvider(provider, http) ==
    IF provider = "openrouter" THEN analyzeWithOpenRouter(http)
    ELSE analyzeWithPerplexity(http)

\* how analyzeNutrition settles: the result, or the error of the catch block
Settle(provider, http) ==
    Bind(AnalyzeWithProvider(provider, http), LAMBDA r :
        IF r.ok THEN [state |-> "resolved", result |-> r.result, error |-> NoError]
        ELSE [state |-> "rejected", result |-> NoResult,
              error |-> handleAPIError(r.thrown)])

(***************************************************************************)
(* Inputs                                                                  *)
(***************************************************************************)
RECURSIVE SeqsUpTo(_, _)
\* the sequences over S of length n or less
SeqsUpTo(S, n) ==
    IF n = 0 THEN {<<>>}
    ELSE LET shorter == SeqsUpTo(S, n - 1)
         IN shorter \cup {Append(q, x) : q \in shorter, x \in S}

Chars == {" ", "a", "b"}
MealTexts == SeqsUpTo(Chars, MaxTextLen)

\* assistant content in free text: some phrases one after the other
Phrases ==
    { <<NumTok(4500), Word("kcal")>>,
      <<NumTok(4526), Word("calories")>>,
      <<NumTok(200), Word("g"), Word("protein")>>,
      <<NumTok(250), Word("grams"), Word("of"), Word("protein")>>,
      <<NumTok(150), Word("fat")>>,
      <<NumTok(400), Word("g"), Word("carbs")>>,
      <<Word("I"), Word("cannot"), Word("determine"), Word("this")>>,
      <<NumTok(3000)>>,
      <<Word("kcal")>> }

RECURSIVE Concat(_)
Concat(qs) == IF qs = <<>> THEN <<>> ELSE Head(qs) \o Concat(Tail(qs))

FreeTexts == {Concat(qs) : qs \in SeqsUpTo(Phrases, MaxPhrases)}

\* assistant content written as JSON
StrLit(t) == <<Quote>> \o t \o <<Quote>>
Member(name, value) == StrLit(<<Word(name)>>) \o <<Punct(":")>> \o value

RECURSIVE Joined(_)
Joined(parts) ==
    IF parts = <<>> THEN <<>>
    ELSE IF Len(parts) = 1 THEN Head(parts)
    ELSE Head(parts) \o <<Punct(",")>> \o Joined(Tail(parts))

ArrLit(elements) == <<Punct("[")>> \o Joined(elements) \o <<Punct("]")>>
ObjLit(members) == <<Punct("{")>> \o Joined(members) \o <<Punct("}")>>

\* a field of a document: <<>> leaves the field out
FieldOf(name, value) == IF value = <<>> THEN <<>> ELSE <<Member(name, value)>>

CaloriesTexts == { <<>>, <<NumTok(4526)>>, <<NumTok(-1000)>>,
                   StrLit(<<NumTok(4500), Word("kcal")>>) }
ProteinTexts == { <<>>, <<NumTok(231)>> }
CarbsTexts == { <<Word("null")>>, <<NumTok(330)>> }
FatTexts == { <<>>, <<NumTok(250)>> }
ExplanationTexts == { <<>>, StrLit(<<Word("estimated")>>) }
ConfidenceTexts == { <<>>, <<NumTok(9)>>, <<NumTok(0)>>, <<NumTok(50)>>,
                     StrLit(<<Word("high")>>) }
SourcesTexts == { <<>>, ArrLit(<<>>), ArrLit(<<StrLit(<<Word("USDA")>>)>>),
                  StrLit(<<Word("USDA")>>), <<NumTok(50)>> }

JsonDoc(c, p, b, f, e, k, s) ==
    ObjLit(FieldOf("calories", c) \o FieldOf("protein", p) \o FieldOf("carbs", b)
           \o FieldOf("fat", f) \o FieldOf("explanation", e)
           \o FieldOf("confidence", k) \o FieldOf("sources", s))

\* every choice of the four macro fields, without and with the other fields,
\* and every choice of the other fields next to four numeric macro fields
JsonTexts ==
    { JsonDoc(c, p, b, f, <<>>, <<>>, <<>>) :
        c \in CaloriesTexts, p \in ProteinTexts, b \in CarbsTexts, f \in FatTexts }
    \cup { JsonDoc(c, p, b, f, StrLit(<<Word("estimated")>>), <<NumTok(9)>>,
                   ArrLit(<<StrLit(<<Word("USDA")>>)>>)) :
        c \in CaloriesTexts, p \in ProteinTexts, b \in CarbsTexts, f \in FatTexts }
    \cup { JsonDoc(<<NumTok(4526)>>, <<NumTok(231)>>, <<NumTok(330)>>, <<NumTok(250)>>,
                   e, k, s) :
        e \in ExplanationTexts, k \in ConfidenceTexts, s \in SourcesTexts }

GoodJson ==
    ObjLit(<<Member("calories", <<NumTok(4526)>>), Member("protein", <<NumTok(231)>>),
             Member("carbs", <<NumTok(330)>>), Member("fat", <<NumTok(250)>>),
             Member("confidence", <<NumTok(9)>>),
             Member("sources", ArrLit(<<StrLit(<<Word("USDA")>>)>>))>>)

\* content that is not a JSON object, or not JSON at all
OddTexts ==
    { <<Word("null")>>, <<NumTok(4500)>>, ArrLit(<<<<NumTok(4500)>>>>),
      StrLit(<<NumTok(4500), Word("kcal")>>),
      SubSeq(GoodJson, 1, Len(GoodJson) - 1),
      <<Word("Here")>> \o GoodJson,
      GoodJson \o <<NumTok(3000), Word("kcal")>> }

Contents == FreeTexts \cup JsonTexts \cup OddTexts

Citations == { Undefined, Arr(<<>>), Arr(<<Str(<<Word("usda.gov")>>)>>) }

AxiosCodes == { "ECONNABORTED", "ETIMEDOUT", "ERR_NETWORK", "ERR_BAD_REQUEST",
                "ERR_BAD_RESPONSE", "ERR_CANCELED" }
Statuses == { 400, 401, 403, 429, 499, 500, 503 }

AxiosErrors ==
    { AxiosError(code, TRUE, status) : code \in AxiosCodes, status \in Statuses }
    \cup { AxiosError(code, FALSE, 0) : code \in AxiosCodes }

\* what axios.post throws when it is not an AxiosError: an Error instance,
\* or a value that is not an Error
OtherThrown ==
    { ErrorInstance("Invalid URL"), Thrown("string", "", FALSE, 0, "", NoError) }

HttpOutcomes ==
    { Reject(e) : e \in AxiosErrors \cup OtherThrown }
    \cup { Response("missing", Undefined, Undefined), Response("empty", Undefined, Undefined) }
    \cup { Response("one", c, k) : c \in {Undefined, Null}, k \in Citations }
    \cup { Response("one", Str(c), k) : c \in Contents, k \in Citations }

\* the outcomes that the calls of a debounced analyzer are answered with
\* the request timeout of 30000 ms ends a call that nothing else ends
RequestTimeout == Reject(AxiosError("ECONNABORTED", FALSE, 0))

DebounceOutcomes == { Response("one", Str(GoodJson), Undefined), RequestTimeout }

\* what the user of a debounced analyzer has typed when a call is made
TypedTexts == { <<>>, <<"a">>, <<"a", "b">> }

NoHttp == HttpOutcome("", "", Undefined, Undefined, Nothing)

(***************************************************************************)
(* State                                                                   *)
(***************************************************************************)
VARIABLES
    aiProvider,         \* config.aiProvider
    invs,               \* the invocations of analyzeNutrition, by number
    calls,              \* the calls made to the debounced analyzer, in order
    promises,           \* the promise that each of these calls returned
    timers,             \* the timers that are set: ticks left until each is due
    timeoutId,          \* the closure's timeoutId, 0 for null
    currentController,  \* the closure's currentController, 0 for null
    aborted             \* the controllers whose abort() was called

vars == <<aiProvider, invs, calls, promises, timers, timeoutId, currentController, aborted>>
debounceVars == <<calls, promises, timers, timeoutId, currentController, aborted>>

Providers == {"openrouter", "perplexity"}

Pending == [state |-> "pending", result |-> NoResult, error |-> NoError]
Rejected(err) == [state |-> "rejected", result |-> NoResult, error |-> err]

Request(provider, mealText) == [provider |-> provider, mealText |-> mealText]

\* analyzeNutrition up to its await: the input check, the provider
\* configuration and the POST of the provider's function
Start(mealText) ==
    IF IsEmptyInput(mealText)
    THEN [mealText |-> mealText, provider |-> "", pc |-> "done", requests |-> <<>>,
          http |-> NoHttp, outcome |-> Rejected(EmptyInput)]
    ELSE LET provider == getCurrentProviderConfig(aiProvider)
         IN [mealText |-> mealText, provider |-> provider, pc |-> "awaiting",
             requests |-> <<Request(provider, mealText)>>,
             http |-> NoHttp, outcome |-> Pending]

\* analyzeNutrition with a second attempt, at the other provider, after a
\* failed first one
CompleteWithFallback(inv, http) ==
    Bind(Settle(inv.provider, http), LAMBDA outcome :
        IF outcome.state = "rejected" /\ Len(inv.requests) < 2
        THEN [inv EXCEPT !.provider = IF @ = "openrouter" THEN "perplexity" ELSE "openrouter",
                         !.requests = Append(@, Request(
                             IF inv.provider = "openrouter" THEN "perplexity" ELSE "openrouter",
                             inv.mealText))]
        ELSE [inv EXCEPT !.pc = "done", !.http = http, !.outcome = outcome])

\* analyzeNutrition from the end of the HTTP call on
Complete(inv, http) ==
    [inv EXCEPT !.pc = "done", !.http = http, !.outcome = Settle(inv.provider, http)]

\* resolve(result) or reject(error) of a promise: the first one settles it
\* (by: the call whose callback did it)
Resolve(promise, outcome, by) ==
    IF promise.state = "pending"
    THEN [state |-> outcome.state, result |-> outcome.result, error |-> outcome.error,
          settled |-> promise.settled + 1, by |-> by]
    ELSE [promise EXCEPT !.settled = @ + 1]

\* resolve and reject kept in the closure, where the next call overwrites them
PromiseOfLatestCall(i) == Len(calls)

\* the promise that the timer callback of call i resolves or rejects: the
\* one whose executor set the timer
PromiseOf(i) == i

\* the mealText that the timer callback of call i passes to analyzeNutrition
TextOf(i) == calls[i].mealText

Put(f, k, v) == [i \in DOMAIN f \cup {k} |-> IF i = k THEN v ELSE f[i]]
Without(f, k) == [i \in DOMAIN f \ {k} |-> f[i]]

\* a timer that is cleared before it fires never fires
ClearTimeoutNoop(ts, id) == ts

\* clearTimeout(id): nothing happens when the timer has fired already
ClearTimeout(ts, id) == IF id \in DOMAIN ts THEN Without(ts, id) ELSE ts

Init ==
    /\ aiProvider \in Providers
    /\ invs = <<>>
    /\ calls = <<>>
    /\ promises = <<>>
    /\ timers = <<>>
    /\ timeoutId = 0
    /\ currentController = 0
    /\ aborted = {}

(***************************************************************************)
(* A caller of analyzeNutrition                                            *)
(***************************************************************************)
Analyze(mealText) ==
    /\ invs = <<>>
    /\ invs' = Put(invs, 1, Start(mealText))
    /\ UNCHANGED <<aiProvider, debounceVars>>

AnalysisReturns(i, http) ==
    /\ i \in DOMAIN invs
    /\ invs[i].pc = "awaiting"
    /\ invs' = [invs EXCEPT ![i] = Complete(invs[i], http)]
    /\ UNCHANGED <<aiProvider, debounceVars>>

NextAnalyze ==
    \/ \E mealText \in MealTexts : Analyze(mealText)
    \/ \E i \in DOMAIN invs, http \in HttpOutcomes : AnalysisReturns(i, http)

SpecAnalyze == Init /\ [][NextAnalyze]_vars

(***************************************************************************)
(* The function that createDebouncedAnalyzer returns                       *)
(***************************************************************************)
\* a call: clear the previous timeout, abort the previous controller,
\* return a new promise whose executor sets the timer
Call(mealText) ==
    LET n == Len(calls)
        id == n + 1
        \* the call comes less than delayMs after the one before
        early == n > 0 /\ n \in DOMAIN timers /\ timers[n] > 0
    IN /\ n < MaxCalls
       /\ calls' = Append(calls, [mealText |-> mealText, early |-> early])
       /\ timers' = Put(IF timeoutId # 0 THEN ClearTimeout(timers, timeoutId) ELSE timers,
                        id, DelayTicks)
       /\ timeoutId' = id
       /\ aborted' = IF currentController # 0
                     THEN aborted \cup {currentController} ELSE aborted
       /\ promises' = Put(promises, id,
                          [state |-> "pending", result |-> NoResult, error |-> NoError,
                           settled |-> 0, by |-> 0])
       /\ UNCHANGED <<aiProvider, invs, currentController>>

\* time passes
Tick ==
    /\ \E i \in DOMAIN timers : timers[i] > 0
    /\ timers' = [i \in DOMAIN timers |-> IF timers[i] > 0 THEN timers[i] - 1 ELSE 0]
    /\ UNCHANGED <<aiProvider, invs, calls, promises, timeoutId, currentController, aborted>>

\* the timer callback of call i, up to its await; analyzeNutrition throws
\* at once on an empty input and the callback then rejects the promise
TimerFires(i) ==
    /\ i \in DOMAIN timers
    /\ timers[i] = 0
    /\ timers' = Without(timers, i)
    /\ currentController' = i
    /\ \E inv \in {Start(TextOf(i))} :
          /\ invs' = Put(invs, i, inv)
          /\ promises' = IF inv.pc = "done"
                         THEN [promises EXCEPT ![PromiseOf(i)] =
                                   Resolve(promises[PromiseOf(i)], inv.outcome, i)]
                         ELSE promises
    /\ UNCHANGED <<aiProvider, calls, timeoutId, aborted>>

\* the HTTP call of invocation i ends: analyzeNutrition settles and the
\* timer callback resolves or rejects the promise of its own call
DebouncedAnalysisReturns(i, http) ==
    /\ i \in DOMAIN invs
    /\ invs[i].pc = "awaiting"
    /\ \E inv \in {Complete(invs[i], http)} :
          /\ invs' = [invs EXCEPT ![i] = inv]
          /\ promises' = [promises EXCEPT ![PromiseOf(i)] =
                                    Resolve(promises[PromiseOf(i)], inv.outcome, i)]
    /\ UNCHANGED <<aiProvider, calls, timers, timeoutId, currentController, aborted>>

Next ==
    \/ \E mealText \in TypedTexts : Call(mealText)
    \/ Tick
    \/ \E i \in DOMAIN timers : TimerFires(i)
    \/ \E i \in DOMAIN invs, http \in DebounceOutcomes : DebouncedAnalysisReturns(i, http)

Spec == Init /\ [][Next]_vars

\* time passes, a due timer fires, and an HTTP call that nothing else ends
\* is ended by its timeout
FairSpec ==
    /\ Spec
    /\ WF_vars(Tick)
    /\ WF_vars(\E i \in DOMAIN timers : TimerFires(i))
    /\ WF_vars(\E i \in DOMAIN invs : DebouncedAnalysisReturns(i, RequestTimeout))

(***************************************************************************)
(* Properties                                                              *)
(***************************************************************************)
Blank(mealText) == \A k \in 1..Len(mealText) : mealText[k] = " "

ErrorKinds == { "TIMEOUT", "NETWORK_ERROR", "AUTH_ERROR", "RATE_LIMIT", "SERVER_ERROR",
                "API_ERROR", "EMPTY_RESPONSE", "EMPTY_INPUT", "PARSE_ERROR",
                "UNKNOWN_ERROR" }

Finished == {i \in DOMAIN invs : invs[i].pc = "done"}
Active == {i \in DOMAIN invs : invs[i].pc = "awaiting"}

\* the four macro fields are not negative and confidence is a number of [0, 1]
WellFormed(r) ==
    /\ r.calories >= 0 /\ r.protein >= 0 /\ r.carbs >= 0 /\ r.fat >= 0
    /\ r.confidence.ty = "number" /\ r.confidence.n >= 0 /\ r.confidence.n <= 10

\* C1: for a mealText that is not empty after trimming and any outcome of the
\* provider, analyzeNutrition resolves with a result whose four macro fields
\* are non-negative integers and whose confidence lies in [0, 1], or rejects
\* with an error of one of the ten kinds.
C1_ResultOrKnownError ==
    \A i \in Finished :
        ~Blank(invs[i].mealText) =>
            \/ invs[i].outcome.state = "resolved" /\ WellFormed(invs[i].outcome.result)
            \/ invs[i].outcome.state = "rejected" /\ invs[i].outcome.error.code \in ErrorKinds

\* C2: an empty or whitespace-only mealText is rejected with EMPTY_INPUT,
\* retryable = false, and no HTTP request is dispatched, whatever the provider.
C2_EmptyInput ==
    \A i \in DOMAIN invs :
        Blank(invs[i].mealText) =>
            /\ invs[i].pc = "done"
            /\ invs[i].outcome.state = "rejected"
            /\ invs[i].outcome.error.code = "EMPTY_INPUT"
            /\ invs[i].outcome.error.retryable = FALSE
            /\ invs[i].requests = <<>>

C2_Witness ==
    /\ aiProvider = "perplexity"
    /\ \E i \in Finished : invs[i].mealText = <<" ">> /\ invs[i].outcome.state = "rejected"

\* the provider returned content, and neither the strict decoding nor the
\* calorie pattern recovers a calorie figure from it
NoCalorieFigure(http) ==
    /\ http.kind = "response" /\ http.choices = "one"
    /\ http.content.ty = "string" /\ http.content.s # <<>>
    /\ LET decoded == JSONParse(http.content.s)
       IN ~(decoded.ok /\ decoded.val.ty = "object"
            /\ \A name \in {"calories", "protein", "carbs", "fat"} :
                  <<Word(name)>> \in DOMAIN decoded.val.fields
                  /\ decoded.val.fields[<<Word(name)>>].ty = "number")
    /\ ~\E k \in 1..(Len(http.content.s) - 1) :
          /\ http.content.s[k].k = "num"
          /\ http.content.s[k + 1].k = "word"
          /\ http.content.s[k + 1].w \in CalorieWords

\* C3: when no calorie figure can be recovered from the assistant content,
\* the caller of analyzeNutrition sees an error with code PARSE_ERROR and
\* retryable = false.
C3_ParseError ==
    \A i \in Finished :
        NoCalorieFigure(invs[i].http) =>
            /\ invs[i].outcome.state = "rejected"
            /\ invs[i].outcome.error.code = "PARSE_ERROR"
            /\ invs[i].outcome.error.retryable = FALSE

\* the HTTP call succeeded and the first choice has no content, or an empty one
NoContent(http) ==
    /\ http.kind = "response"
    /\ \/ http.choices = "empty"
       \/ http.choices = "one" /\ http.content \in {Undefined, Null, Str(<<>>)}

\* C4: when the HTTP call succeeds and the first choice's content is missing
\* or empty, the caller of analyzeNutrition sees an error with code
\* EMPTY_RESPONSE and retryable = true, with both providers.
C4_EmptyResponse ==
    \A i \in Finished :
        NoContent(invs[i].http) =>
            /\ invs[i].outcome.state = "rejected"
            /\ invs[i].outcome.error.code = "EMPTY_RESPONSE"
            /\ invs[i].outcome.error.retryable = TRUE

\* the row of the taxonomy that a thrown value belongs to
Row(e) ==
    IF e.kind # "AxiosError" THEN <<"UNKNOWN_ERROR", FALSE>>
    ELSE CASE e.code \in {"ECONNABORTED", "ETIMEDOUT"} -> <<"TIMEOUT", TRUE>>
           [] e.code \notin {"ECONNABORTED", "ETIMEDOUT"} /\ ~e.hasResponse ->
                <<"NETWORK_ERROR", TRUE>>
           [] e.code \notin {"ECONNABORTED", "ETIMEDOUT"} /\ e.hasResponse
              /\ e.status = 401 -> <<"AUTH_ERROR", FALSE>>
           [] e.code \notin {"ECONNABORTED", "ETIMEDOUT"} /\ e.hasResponse
              /\ e.status = 429 -> <<"RATE_LIMIT", TRUE>>
           [] e.code \notin {"ECONNABORTED", "ETIMEDOUT"} /\ e.hasResponse
              /\ e.status \notin {401, 429} /\ e.status >= 500 -> <<"SERVER_ERROR", TRUE>>
           [] e.code \notin {"ECONNABORTED", "ETIMEDOUT"} /\ e.hasResponse
              /\ e.status \notin {401, 429} /\ e.status < 500 -> <<"API_ERROR", TRUE>>

\* C5: the error of a failed HTTP call is classified by the first matching
\* row: timeout code -> TIMEOUT (retryable), no response -> NETWORK_ERROR
\* (retryable), 401 -> AUTH_ERROR (not retryable), 429 -> RATE_LIMIT
\* (retryable), >= 500 -> SERVER_ERROR (retryable), any other status ->
\* API_ERROR (retryable); a thrown value that is no transport failure is an
\* UNKNOWN_ERROR (not retryable).
C5_Classification ==
    \A i \in Finished :
        LET http == invs[i].http
            error == invs[i].outcome.error
        IN /\ http.kind = "reject" =>
                /\ invs[i].outcome.state = "rejected"
                /\ <<error.code, error.retryable>> = Row(http.thrown)
           /\ (http.kind = "response" /\ invs[i].outcome.state = "rejected") =>
                <<error.code, error.retryable>> = <<"UNKNOWN_ERROR", FALSE>>
           /\ (http.kind = "response" /\ http.choices = "missing") =>
                invs[i].outcome.state = "rejected"

C5_Witness ==
    \E i \in Finished :
        /\ invs[i].http.kind = "reject"
        /\ invs[i].http.thrown.hasResponse /\ invs[i].http.thrown.status = 500
        /\ invs[i].http.thrown.code = "ERR_BAD_RESPONSE"
        /\ invs[i].outcome.error.code = "SERVER_ERROR"

\* call i was followed by a call that came less than delayMs after it
Superseded(i) == i < Len(calls) /\ calls[i + 1].early

\* call i is the last call of a burst of two calls or more
EndsBurst(i) == i \in 1..Len(calls) /\ calls[i].early /\ ~Superseded(i)

\* the promise of call i was neither resolved nor rejected
Unsettled(i) == promises[i].state = "pending" /\ promises[i].settled = 0

\* C6 as claimed: in a burst of calls that each come less than delayMs after
\* the one before, exactly one HTTP request is dispatched, it carries the
\* mealText of the last call, and the promises of the earlier calls are never
\* settled. (The count is taken once the timer of the last call has fired.)
C6_OneDispatchPerBurst ==
    \A i \in 1..Len(calls) :
        /\ Superseded(i) => i \notin DOMAIN invs /\ Unsettled(i)
        /\ (EndsBurst(i) /\ i \in DOMAIN invs) =>
              /\ Len(invs[i].requests) = 1
              /\ invs[i].requests[1].mealText = calls[i].mealText

\* C6 as amended: in such a burst exactly one analysis is started, it is the
\* analysis of the mealText of the last call, it dispatches exactly one HTTP
\* request when this mealText is not blank and none when it is, and the
\* promises of the earlier calls are never settled.
C6_OneAnalysisPerBurst ==
    \A i \in 1..Len(calls) :
        /\ Superseded(i) => i \notin DOMAIN invs /\ Unsettled(i)
        /\ (EndsBurst(i) /\ i \in DOMAIN invs) =>
              /\ invs[i].mealText = calls[i].mealText
              /\ invs[i].requests =
                    IF Blank(calls[i].mealText) THEN <<>>
                    ELSE <<Request(aiProvider, calls[i].mealText)>>

C6_Witness ==
    /\ Len(calls) = 3
    /\ calls[2].early /\ calls[3].early
    /\ calls[1].mealText = <<"a">> /\ calls[3].mealText = <<"a", "b">>
    /\ DOMAIN invs = {3}
    /\ Len(invs[3].requests) = 1
    /\ invs[3].pc = "done"
    /\ Unsettled(1) /\ Unsettled(2)

\* C7: a call whose request is in flight when a later call is made is
\* cancelled: its promise is not resolved or rejected afterwards.
C7_InFlightCancelled ==
    [][\A i \in DOMAIN invs :
          (i < Len(calls) /\ invs[i].pc = "awaiting" /\ promises[i].state = "pending")
              => promises'[i].state = "pending"]_vars

\* C8: at most one HTTP request issued through a debounced analyzer is
\* active at a time.
C8_OneActiveRequest == Cardinality(Active) <= 1

\* C9: the promise of a call that no further call follows is eventually
\* settled, exactly once, with the result or the error of the analysis of that
\* call's own mealText, never with the outcome of another call.
C9_LastCallSettles ==
    /\ [](\A i \in DOMAIN promises :
            /\ promises[i].settled <= 1
            /\ promises[i].state # "pending" =>
                  /\ promises[i].by = i
                  /\ i \in Finished
                  /\ invs[i].mealText = calls[i].mealText
                  /\ promises[i].state = invs[i].outcome.state
                  /\ promises[i].result = invs[i].outcome.result
                  /\ promises[i].error = invs[i].outcome.error
                  /\ invs[i].requests =
                        IF Blank(calls[i].mealText) THEN <<>>
                        ELSE <<Request(aiProvider, calls[i].mealText)>>)
    /\ <>[](calls # <<>> =>
              promises[Len(calls)].state # "pending" /\ promises[Len(calls)].settled = 1)

C9_Witness ==
    /\ Len(calls) = 2
    /\ calls[1].mealText = <<"a">> /\ calls[2].mealText = <<"a", "b">>
    /\ DOMAIN invs = {1, 2}
    /\ invs[1].pc = "awaiting"
    /\ promises[2].state = "resolved" /\ promises[2].settled = 1

\* the HTTP call failed, or answered without a usable content
Failed(http) ==
    \/ http.kind = "reject"
    \/ http.kind = "response" /\ http.choices # "one"
    \/ NoContent(http)
    \/ NoCalorieFigure(http)

\* C10: an invocation of analyzeNutrition issues at most one HTTP request,
\* to the configured provider; after a transport failure, an empty response
\* or a parse failure it sends no second one and rejects.
C10_SingleRequest ==
    \A i \in DOMAIN invs :
        /\ Len(invs[i].requests) <= 1
        /\ \A k \in 1..Len(invs[i].requests) : invs[i].requests[k].provider = aiProvider
        /\ invs[i].http # NoHttp =>
              /\ invs[i].pc = "done"
              /\ invs[i].outcome.state # "pending"
              /\ Failed(invs[i].http) => invs[i].outcome.state = "rejected"

C10_Witness ==
    \E i \in Finished :
        /\ invs[i].http.kind = "reject"
        /\ invs[i].http.thrown.code = "ERR_NETWORK"
        /\ Len(invs[i].requests) = 1
        /\ invs[i].outcome.state = "rejected"

\* the assistant content of a successful HTTP call, when it is not empty
HasContent(http) ==
    /\ http.kind = "response" /\ http.choices = "one"
    /\ http.content.ty = "string" /\ http.content.s # <<>>

\* the text decodes to an object whose calories, protein, carbs and fat are
\* all present and numeric
FourNumeric(t) ==
    LET decoded == JSONParse(t)
    IN /\ decoded.ok /\ decoded.val.ty = "object"
       /\ \A name \in {"calories", "protein", "carbs", "fat"} :
             /\ <<Word(name)>> \in DOMAIN decoded.val.fields
             /\ decoded.val.fields[<<Word(name)>>].ty = "number"

\* the field of the decoded object, Undefined when it is absent
Decoded(t, name) ==
    LET fields == JSONParse(t).val.fields
    IN IF <<Word(name)>> \in DOMAIN fields THEN fields[<<Word(name)>>] ELSE Undefined

\* a number directly followed by a calorie word starts at position k
CalorieAt(t, k) ==
    /\ k + 1 <= Len(t)
    /\ t[k].k = "num" /\ t[k + 1].k = "word" /\ t[k + 1].w \in CalorieWords

\* a number followed by an optional gram word, an optional "of" and one of
\* the names starts at position k
MacroAt(t, k, names) ==
    /\ t[k].k = "num"
    /\ \E g \in {0, 1}, o \in {0, 1} :
          /\ k + 1 + g + o <= Len(t)
          /\ g = 1 => t[k + 1].k = "word" /\ t[k + 1].w \in GramWords
          /\ o = 1 => t[k + 1 + g].k = "word" /\ t[k + 1 + g].w \in OfWords
          /\ t[k + 1 + g + o].k = "word" /\ t[k + 1 + g + o].w \in names

\* v is the figure of the leftmost match of the macro pattern in t, or the
\* fallback figure when the pattern matches nowhere
IsExtracted(v, t, names, fallback) ==
    IF \E k \in 1..Len(t) : MacroAt(t, k, names)
    THEN \E k \in 1..Len(t) :
            /\ MacroAt(t, k, names)
            /\ \A j \in 1..(k - 1) : ~MacroAt(t, j, names)
            /\ v = TrailingDigits(t[k])
    ELSE v = fallback

\* v is an integer nearest to the number of n tenths
IsNearest(v, n) == Abs(10 * v - n) <= 5

\* C11: the response parser never partially accepts a decoded object. When the
\* content is not valid JSON, or one of calories, protein, carbs, fat is missing
\* or not a number, the result is the regex extraction of the raw text: calories
\* from the calorie pattern (without a match the analysis fails), each of
\* protein, carbs, fat from its pattern or else 20, 30, 10, confidence 0.6 and
\* empty sources, and nothing of the decoded object is carried over. When all
\* four are numbers the result holds them rounded to the nearest integer, with
\* confidence defaulting to 0.8 and sources to the empty list. (Sources are
\* compared for openrouter, where nothing else writes them.)
C11_NoPartialAcceptance ==
    \A i \in Finished :
        HasContent(invs[i].http) =>
            LET t == invs[i].http.content.s
                out == invs[i].outcome
                r == out.result
            IN IF FourNumeric(t)
               THEN /\ out.state = "resolved"
                    /\ IsNearest(r.calories, Decoded(t, "calories").n)
                    /\ IsNearest(r.protein, Decoded(t, "protein").n)
                    /\ IsNearest(r.carbs, Decoded(t, "carbs").n)
                    /\ IsNearest(r.fat, Decoded(t, "fat").n)
                    /\ r.confidence =
                          IF Decoded(t, "confidence") \in {Undefined, Num(0)}
                          THEN Num(8) ELSE Decoded(t, "confidence")
                    /\ invs[i].provider = "openrouter" =>
                          r.sources = IF Decoded(t, "sources") = Undefined
                                      THEN Arr(<<>>) ELSE Decoded(t, "sources")
               ELSE IF ~\E k \in 1..Len(t) : CalorieAt(t, k)
               THEN out.state = "rejected"
               ELSE /\ out.state = "resolved"
                    /\ \E k \in 1..Len(t) :
                          /\ CalorieAt(t, k)
                          /\ \A j \in 1..(k - 1) : ~CalorieAt(t, j)
                          /\ r.calories = TrailingDigits(t[k])
                    /\ IsExtracted(r.protein, t, ProteinWords, 20)
                    /\ IsExtracted(r.carbs, t, CarbWords, 30)
                    /\ IsExtracted(r.fat, t, FatWords, 10)
                    /\ r.explanation = Str(SubSeq(t, 1, IF Len(t) < 500 THEN Len(t) ELSE 500))
                    /\ r.confidence = Num(6)
                    /\ invs[i].provider = "openrouter" => r.sources = Arr(<<>>)

\* a decoded object with numeric protein, carbs and fat, a confidence and
\* sources, but calories written as a string, is set aside as a whole
C11_Witness ==
    \E i \in Finished :
        /\ HasContent(invs[i].http)
        /\ invs[i].provider = "openrouter"
        /\ JSONParse(invs[i].http.content.s).ok
        /\ ~FourNumeric(invs[i].http.content.s)
        /\ Decoded(invs[i].http.content.s, "protein") = Num(231)
        /\ Decoded(invs[i].http.content.s, "confidence") = Num(9)
        /\ Decoded(invs[i].http.content.s, "sources") # Undefined
        /\ invs[i].outcome.state = "resolved"
        /\ invs[i].outcome.result.calories = 450
        /\ invs[i].outcome.result.protein = 20
        /\ invs[i].outcome.result.confidence = Num(6)
        /\ invs[i].outcome.result.sources = Arr(<<>>)

\* the sources that the assistant content alone gives: those of the decoded
\* object when it is accepted and names some, the empty list otherwise
OwnSources(t) ==
    IF FourNumeric(t) /\ Decoded(t, "sources") # Undefined
    THEN Decoded(t, "sources") ELSE Arr(<<>>)

\* the top-level citations of the response body, the empty list when absent
CitationsOf(http) == IF http.citations = Undefined THEN Arr(<<>>) ELSE http.citations

\* C12: on a successful analysis through perplexity the sources of the result
\* are the top-level citations of the response body when the parsed result
\* carries no sources and the citations are not empty, the parsed sources
\* unchanged when there are some, and the empty list when both are empty;
\* through openrouter the citations never affect the sources.
C12_CitationBackfill ==
    \A i \in Finished :
        HasContent(invs[i].http) /\ invs[i].outcome.state = "resolved" =>
            LET own == OwnSources(invs[i].http.content.s)
                citations == CitationsOf(invs[i].http)
                sources == invs[i].outcome.result.sources
            IN IF invs[i].provider = "perplexity"
               THEN /\ own = Arr(<<>>) /\ citations # Arr(<<>>) => sources = citations
                    /\ own # Arr(<<>>) => sources = own
                    /\ own = Arr(<<>>) /\ citations = Arr(<<>>) => sources = Arr(<<>>)
                    /\ sources = citations /\ sources # own =>
                          own = Arr(<<>>) /\ citations # Arr(<<>>)
               ELSE sources = own

\* perplexity answers with a decoded object that names no sources and with
\* citations beside it, and the result carries the citations
C12_Witness ==
    \E i \in Finished :
        /\ invs[i].provider = "perplexity"
        /\ HasContent(invs[i].http)
        /\ FourNumeric(invs[i].http.content.s)
        /\ OwnSources(invs[i].http.content.s) = Arr(<<>>)
        /\ invs[i].http.citations = Arr(<<Str(<<Word("usda.gov")>>)>>)
        /\ invs[i].outcome.state = "resolved"
        /\ invs[i].outcome.result.sources = Arr(<<Str(<<Word("usda.gov")>>)>>)
====
